---- MODULE Spec2Model ----
(***************************************************************************)
(* Bulk product upload and categorization over a document store.           *)
(*                                                                         *)
(* bulkUpload.py: CSV ingestion (validate_csv, process_csv), the category  *)
(* registry (add_category), the batch insert (save_products), the search   *)
(* (search_products) and the upload page of main().                        *)
(* productCategorization.py: update_product_category.                      *)
(*                                                                         *)
(* Text is a sequence of one-character strings, so that split, strip and   *)
(* the pattern match are computed character by character.  A number is     *)
(* kept in halves (n = 5 is 2.5) so that float() and int() differ.         *)
(***************************************************************************)
EXTENDS Integers, Sequences, FiniteSets, TLC

VARIABLES
    products,               \* the "products" collection, in insertion order
    categories_collection,  \* the "categories" collection: the name of each record
    uploaded_files,         \* the files held by the st.file_uploader widget
    all_products,           \* main(): records aggregated by the last script run
    invalid_files,          \* main(): names of the files the last run skipped
    last,                   \* what the last handler did and returned
    pc, arg, found          \* concurrent add_category sessions: position, argument, find_one result

vars == <<products, categories_collection, uploaded_files, all_products,
          invalid_files, last, pc, arg, found>>

----------------------------------------------------------------------------
(* Bounds of the model *)

MaxRows == 2        \* data rows of a generated CSV file
MaxBatch == 2       \* files of a generated multi-file upload
MaxStored == 2      \* documents the products collection holds before uploads stop
MaxCategories == 3  \* records the categories collection holds before concurrent calls stop

----------------------------------------------------------------------------
(* Text *)

\* "$options": "i" -- case folding, over the letters the model uses
Lower(c) == IF c = "W" THEN "w" ELSE IF c = "A" THEN "a" ELSE c

RECURSIVE lstrip(_)
lstrip(s) == IF s # <<>> /\ Head(s) = " " THEN lstrip(Tail(s)) ELSE s

RECURSIVE rstrip(_)
rstrip(s) ==
    IF s # <<>> /\ s[Len(s)] = " " THEN rstrip(SubSeq(s, 1, Len(s) - 1)) ELSE s

\* str.strip()
strip(s) == rstrip(lstrip(s))

\* str.split(','): the pieces between the commas, empty pieces included;
\* a text without a comma is one piece
RECURSIVE split(_)
split(s) ==
    IF \A i \in 1..Len(s) : s[i] # ","
    THEN <<s>>
    ELSE LET i == CHOOSE k \in 1..Len(s) :
                      s[k] = "," /\ \A j \in 1..(k - 1) : s[j] # ","
         IN  <<SubSeq(s, 1, i - 1)>> \o split(SubSeq(s, i + 1, Len(s)))

\* one pattern character against one text character under option i;
\* "." is the metacharacter that matches any character
CharMatches(p, c) == p = "." \/ Lower(p) = Lower(c)

\* {"$regex": query, "$options": "i"}: the pattern matches somewhere in the text
RegexSearch(query, text) ==
    \E i \in 1..(Len(text) + 1) :
        /\ i + Len(query) - 1 <= Len(text)
        /\ \A k \in 1..Len(query) : CharMatches(query[k], text[i + k - 1])

----------------------------------------------------------------------------
(* Values.  Every value has the same three fields: its type t, a number n  *)
(* (integers as they are, floats in halves) and a text s.                  *)

IntVal(n) == [t |-> "int", n |-> n, s |-> <<>>]          \* a Python / numpy integer
FloatVal(h) == [t |-> "float", n |-> h, s |-> <<>>]      \* a float, h halves
NaN == [t |-> "nan", n |-> 0, s |-> <<>>]             \* float('nan'): a missing cell
Str(s) == [t |-> "str", n |-> 0, s |-> s]             \* a text that is no number
IntStr(n) == [t |-> "intstr", n |-> n, s |-> <<>>]    \* the text of an integer, "10"
FloatStr(h) == [t |-> "floatstr", n |-> h, s |-> <<>>]  \* the text of a decimal, "2.5"
Empty == [t |-> "empty", n |-> 0, s |-> <<>>]         \* an empty CSV cell

Raise == [t |-> "raise", n |-> 0, s |-> <<>>]         \* ValueError / AttributeError

\* float(x), line 88
float(x) ==
    CASE x.t = "int" -> FloatVal(2 * x.n)
      [] x.t = "float" -> x
      [] x.t = "nan" -> x
      [] x.t = "intstr" -> FloatVal(2 * x.n)
      [] x.t = "floatstr" -> FloatVal(x.n)
      [] OTHER -> Raise

\* int(x), line 89: a float is truncated towards zero, float('nan') and the
\* text of a decimal raise ValueError
int(x) ==
    CASE x.t = "int" -> x
      [] x.t = "float" -> IntVal(IF x.n >= 0 THEN x.n \div 2 ELSE -((-x.n) \div 2))
      [] x.t = "intstr" -> IntVal(x.n)
      [] OTHER -> Raise

----------------------------------------------------------------------------
(* CSV files *)

required_columns == {"product_name", "description", "price", "quantity", "categories"}

ColumnNames == required_columns \cup {"category"}

\* pandas' dtype of a column: object when a cell is no number, float64 when a
\* cell is a decimal or is missing, else int64
dtype(cells) ==
    IF \E i \in 1..Len(cells) : cells[i].t = "str" THEN "object"
    ELSE IF \E i \in 1..Len(cells) : cells[i].t \in {"floatstr", "empty"} THEN "float64"
    ELSE "int64"

\* the value pandas gives one cell of a column of that dtype
read_cell(raw, dt) ==
    CASE raw.t = "empty" -> NaN
      [] raw.t = "str" -> Str(raw.s)
      [] raw.t = "intstr" ->
            IF dt = "object" THEN raw ELSE IF dt = "float64" THEN FloatVal(2 * raw.n) ELSE IntVal(raw.n)
      [] raw.t = "floatstr" -> IF dt = "object" THEN raw ELSE FloatVal(raw.n)

\* pd.read_csv(file), line 84: the header and the typed rows
read_csv(file) ==
    [columns |-> file.columns,
     rows |-> [i \in 1..Len(file.rows) |->
                 [c \in ColumnNames |->
                    read_cell(file.rows[i][c],
                              dtype([j \in 1..Len(file.rows) |-> file.rows[j][c]]))]]]

\* validate_csv, lines 73-75
validate_csv(df) == \A col \in required_columns : col \in df.columns

split_categories_filtered(text) ==
    SelectSeq([i \in 1..Len(split(text)) |-> strip(split(text)[i])], LAMBDA piece : piece # <<>>)

\* line 90: [cat.strip() for cat in product['categories'].split(',')]
split_categories(text) == [i \in 1..Len(split(text)) |-> strip(split(text)[i])]

\* lines 88-90 on one row raise: a price or quantity that is no number, or a
\* categories cell that is no text (float has no split)
RowRaises(row) ==
    \/ float(row["price"]) = Raise
    \/ int(row["quantity"]) = Raise
    \/ row["categories"].t # "str"

\* lines 86-90 on one row: the dictionary of the row with the three fields
\* replaced; the columns beyond the required five are kept as they are
normalize(row, columns) ==
    [product_name |-> row["product_name"],
     description |-> row["description"],
     price |-> float(row["price"]),
     quantity |-> int(row["quantity"]),
     categories |-> split_categories(row["categories"].s),
     category |-> IF "category" \in columns THEN <<row["category"].s>> ELSE <<>>,
     id |-> 0]

\* process_csv, lines 83-92: None, the list of records, or an exception
process_csv(file) ==
    LET df == read_csv(file)
    IN  IF ~validate_csv(df) THEN [status |-> "none", records |-> <<>>]
        ELSE IF \E i \in 1..Len(df.rows) : RowRaises(df.rows[i])
             THEN [status |-> "raise", records |-> <<>>]
             ELSE [status |-> "records",
                   records |-> [i \in 1..Len(df.rows) |-> normalize(df.rows[i], df.columns)]]

\* main(), lines 127-137: the loop over the uploaded files.  An exception of
\* process_csv is caught nowhere: it ends the script run, and the lists built
\* so far are lost with it.
RECURSIVE run_files(_, _, _)
run_files(files, all, invalid) ==
    IF files = <<>>
    THEN [status |-> "done", all_products |-> all, invalid_files |-> invalid]
    ELSE LET r == process_csv(Head(files))
         IN  IF r.status = "raise"
             THEN [status |-> "exception", all_products |-> <<>>, invalid_files |-> <<>>]
             ELSE IF r.status = "records" /\ r.records # <<>>
                  THEN run_files(Tail(files), all \o r.records, invalid)
                  ELSE run_files(Tail(files), all, Append(invalid, Head(files).name))


----------------------------------------------------------------------------
(* The document store *)

\* product_schema, lines 11-43: the validator of the products collection
valid_product(doc) ==
    /\ doc.product_name.t = "str"
    /\ doc.description.t = "str"
    /\ doc.price.t \in {"int", "float"} /\ doc.price.n >= 0
    /\ doc.quantity.t = "int" /\ doc.quantity.n >= 0
    /\ \A i \in 1..Len(doc.categories) : doc.categories[i] \in Seq(STRING)

\* products_collection.insert_many(docs), line 79, with pymongo's default
\* ordered=True: the documents are written one by one in the order given, the
\* first one the validator rejects stops the batch (BulkWriteError), and the
\* documents written before it stay written.  The store numbers the documents.
RECURSIVE insert_many(_, _)
insert_many(coll, docs) ==
    IF docs = <<>> THEN [coll |-> coll, error |-> FALSE]
    ELSE IF ~valid_product(Head(docs)) THEN [coll |-> coll, error |-> TRUE]
    ELSE insert_many(Append(coll, [Head(docs) EXCEPT !.id = Len(coll) + 1]), Tail(docs))

\* save_products, lines 78-80: the number of documents inserted, or the error
save_products(coll, docs) ==
    LET r == insert_many(coll, docs)
    IN  [products |-> r.coll,
         error |-> r.error,
         count |-> IF r.error THEN 0 ELSE Len(docs)]

\* categories_collection.find_one({"name": category_name}), line 100
find_one(coll, category_name) == \E i \in 1..Len(coll) : coll[i] = category_name

insert_one_unique(coll, category_name) ==
    IF find_one(coll, category_name) THEN coll ELSE Append(coll, category_name)

\* categories_collection.insert_one({"name": category_name}), line 101
insert_one(coll, category_name) == Append(coll, category_name)

add_category_unchecked(coll, category_name) == insert_one(coll, category_name)

\* add_category, lines 99-101
add_category(coll, category_name) ==
    IF ~find_one(coll, category_name) THEN insert_one(coll, category_name) ELSE coll

\* lines 146-148: add_category for every label of every record, in order
RECURSIVE add_labels(_, _)
add_labels(coll, labels) ==
    IF labels = <<>> THEN coll
    ELSE add_labels(add_category(coll, Head(labels)), Tail(labels))

RECURSIVE labels_of(_)
labels_of(docs) ==
    IF docs = <<>> THEN <<>> ELSE Head(docs).categories \o labels_of(Tail(docs))

category_matches_array(doc, query) ==
    \/ doc.category = <<query>>
    \/ \E i \in 1..Len(doc.categories) : doc.categories[i] = query

\* {"category": {"$in": [query]}}, line 109: the field category, when the
\* document has one, equals the query
category_matches(doc, query) == doc.category = <<query>>

search_matches_and(doc, query) ==
    /\ doc.product_name.t = "str" /\ RegexSearch(query, doc.product_name.s)
    /\ doc.description.t = "str" /\ RegexSearch(query, doc.description.s)

\* the $or of lines 106-110 on one document
search_matches(doc, query) ==
    \/ doc.product_name.t = "str" /\ RegexSearch(query, doc.product_name.s)
    \/ doc.description.t = "str" /\ RegexSearch(query, doc.description.s)
    \/ category_matches(doc, query)

\* search_products, lines 104-112
search_products(coll, query) == SelectSeq(coll, LAMBDA doc : search_matches(doc, query))

update_always_true(coll, product_id, new_category) ==
    [products |-> [i \in 1..Len(coll) |->
                     IF coll[i].id = product_id
                     THEN [coll[i] EXCEPT !.category = <<new_category>>] ELSE coll[i]],
     result |-> \E i \in 1..Len(coll) : coll[i].id = product_id]

\* update_product_category, productCategorization.py lines 17-22: update_one
\* with $set; modified_count is 1 when a document has the id and its category
\* is absent or another value
update_product_category(coll, product_id, new_category) ==
    [products |-> [i \in 1..Len(coll) |->
                     IF coll[i].id = product_id
                     THEN [coll[i] EXCEPT !.category = <<new_category>>] ELSE coll[i]],
     result |-> \E i \in 1..Len(coll) :
                    coll[i].id = product_id /\ coll[i].category # <<new_category>>]


----------------------------------------------------------------------------
(* Inputs *)

Row(name, description, price, quantity, cats, category) ==
    [c \in ColumnNames |->
        CASE c = "product_name" -> name
          [] c = "description" -> description
          [] c = "price" -> price
          [] c = "quantity" -> quantity
          [] c = "categories" -> cats
          [] c = "category" -> category]

\* Wi,d,10,5,"a, b"
Widget == Row(Str(<<"W", "i">>), Str(<<"d">>), IntStr(10), IntStr(5),
              Str(<<"a", ",", " ", "b">>), Str(<<"a">>))
\* b,aW,2.5,5.5," b,,a "
Gadget == Row(Str(<<"b">>), Str(<<"A", "W">>), FloatStr(5), FloatStr(11),
              Str(<<" ", "b", ",", ",", "a", " ">>), Str(<<"b">>))
\* a negative price: the validator rejects the record
NegPrice == Row(Str(<<"W", "i">>), Str(<<"d">>), IntStr(-1), IntStr(5), Str(<<"c">>), Str(<<"a">>))
\* a negative quantity, written as a decimal: int(-2.5) is -2
NegQuantity == Row(Str(<<"b">>), Str(<<"d">>), IntStr(3), FloatStr(-5), Str(<<"a">>), Str(<<"b">>))
\* no product name: pandas reads NaN, a double where the validator wants a string
NoName == Row(Empty, Str(<<"d">>), IntStr(10), IntStr(5), Str(<<"a">>), Str(<<"a">>))
\* a price that is no number: float() raises
BadPrice == Row(Str(<<"W", "i">>), Str(<<"d">>), Str(<<"x">>), IntStr(5), Str(<<"a">>), Str(<<"a">>))
\* no quantity and no categories: int(nan) raises
NoQuantity == Row(Str(<<"b">>), Str(<<"d">>), IntStr(10), Empty, Empty, Str(<<"b">>))

Rows == {Widget, Gadget, NegPrice, NegQuantity, NoName, BadPrice, NoQuantity}

File(columns, rows) == [name |-> "", columns |-> columns, rows |-> rows]

\* the files of an upload are told apart by their names
FileNames == <<"f1.csv", "f2.csv", "f3.csv", "f4.csv">>

Named(files) == [i \in 1..Len(files) |-> [files[i] EXCEPT !.name = FileNames[i]]]

\* every file of up to MaxRows rows that has the required columns, with or
\* without the further column "category"
GeneratedFiles ==
    {File(columns, rows) :
        columns \in {required_columns, ColumnNames},
        rows \in UNION {[1..n -> Rows] : n \in 0..MaxRows}}

\* a file without one of the required columns
Lacking(col) == File(ColumnNames \ {col}, <<Widget>>)

BatchFiles ==
    {Lacking(col) : col \in required_columns}
        \cup {File(required_columns, <<Widget>>),
              File(ColumnNames, <<Gadget, Widget>>),
              File(required_columns, <<>>),
              File(required_columns, <<Widget, BadPrice>>),
              File(required_columns, <<NoQuantity>>)}

\* the uploads of the ingestion specification
Batches ==
    {Named(<<f>>) : f \in GeneratedFiles}
        \cup {Named(b) : b \in UNION {[1..n -> BatchFiles] : n \in 1..MaxBatch}}

\* the uploads of the store specification
StoreBatches ==
    {Named(<<File(required_columns, <<Widget>>)>>),
     Named(<<File(ColumnNames, <<Gadget>>)>>),
     Named(<<File(required_columns, <<Widget, NegPrice>>)>>),
     Named(<<File(required_columns, <<NegQuantity, Gadget>>)>>),
     Named(<<File(required_columns, <<NoName>>)>>),
     Named(<<File(required_columns, <<BadPrice>>)>>),
     Named(<<Lacking("price"), File(required_columns, <<Gadget>>)>>)}

\* what is typed into "Add a new category"
CategoryInputs == {<<>>, <<"a">>, <<"c">>}

\* the new_category of a recategorization
NewCategories == {<<"a">>, <<"c">>}

\* what is typed into the search box
SearchTerms == {<<"w", "i">>, <<".">>, <<"a">>, <<"c">>, <<"z">>}

ProductIds == 1..(MaxStored + 1)

Sessions == {1, 2}

----------------------------------------------------------------------------
(* State *)

Idle == [op |-> "none"]

Init ==
    /\ products = <<>>
    /\ categories_collection = <<>>
    /\ uploaded_files = <<>>
    /\ all_products = <<>>
    /\ invalid_files = <<>>
    /\ last = Idle
    /\ pc = [p \in Sessions |-> "idle"]
    /\ arg = [p \in Sessions |-> <<>>]
    /\ found = [p \in Sessions |-> FALSE]

\* "Upload Products", lines 124-140: the files are chosen and the script runs
\* over them
ChooseFiles(files) ==
    LET r == run_files(files, <<>>, <<>>)
    IN  /\ uploaded_files' = files
        /\ all_products' = r.all_products
        /\ invalid_files' = r.invalid_files
        /\ last' = [op |-> "files", status |-> r.status]
        /\ UNCHANGED <<products, categories_collection, pc, arg, found>>

\* "Upload All Products", lines 124-152: the script runs over the chosen files,
\* and when the run gathered records the button registers every label and
\* then inserts the batch.  A run that ends in an exception, or gathers
\* nothing, offers no button.
Upload(files) ==
    LET run == run_files(files, <<>>, <<>>)
        r == save_products(products, run.all_products)
    IN  /\ Len(products) + Len(run.all_products) <= MaxStored
        /\ IF run.all_products = <<>>
           THEN /\ last' = [op |-> "files", status |-> run.status]
                /\ UNCHANGED <<products, categories_collection>>
           ELSE /\ categories_collection' =
                       add_labels(categories_collection, labels_of(run.all_products))
                /\ products' = r.products
                /\ last' = [op |-> "upload", records |-> Len(run.all_products),
                            error |-> r.error, count |-> r.count]
        /\ UNCHANGED <<uploaded_files, all_products, invalid_files, pc, arg, found>>

\* "Add Category", lines 160-168
AddCategory(new_category) ==
    /\ categories_collection' =
           IF new_category # <<>>
           THEN add_category(categories_collection, new_category)
           ELSE categories_collection
    /\ last' = [op |-> "add_category", name |-> new_category,
                found |-> find_one(categories_collection, new_category)]
    /\ UNCHANGED <<products, uploaded_files, all_products, invalid_files, pc, arg, found>>

\* update_product_category(product_id, new_category)
UpdateCategory(product_id, new_category) ==
    LET r == update_product_category(products, product_id, new_category)
    IN  /\ products' = r.products
        /\ last' = [op |-> "update", id |-> product_id, category |-> new_category,
                    result |-> r.result]
        /\ UNCHANGED <<categories_collection, uploaded_files, all_products,
                       invalid_files, pc, arg, found>>

\* "Search Products", lines 186-197; an empty term searches nothing
Search(search_term) ==
    /\ last' = [op |-> "search", term |-> search_term,
                result |-> search_products(products, search_term)]
    /\ UNCHANGED <<products, categories_collection, uploaded_files, all_products,
                   invalid_files, pc, arg, found>>

Next ==
    \/ \E files \in StoreBatches : Upload(files)
    \/ \E new_category \in CategoryInputs : AddCategory(new_category)
    \/ \E product_id \in ProductIds, new_category \in NewCategories :
           UpdateCategory(product_id, new_category)
    \/ \E search_term \in SearchTerms : Search(search_term)

Spec == Init /\ [][Next]_vars

\* ingestion alone: the script runs once over an upload
InitCsv ==
    /\ uploaded_files \in Batches
    /\ products = <<>>
    /\ categories_collection = <<>>
    /\ all_products = <<>>
    /\ invalid_files = <<>>
    /\ last = Idle
    /\ pc = [p \in Sessions |-> "idle"]
    /\ arg = [p \in Sessions |-> <<>>]
    /\ found = [p \in Sessions |-> FALSE]

RunScript == last = Idle /\ ChooseFiles(uploaded_files)

NextCsv == RunScript

SpecCsv == InitCsv /\ [][NextCsv]_vars

----------------------------------------------------------------------------
(* Two sessions call add_category at the same time: the find_one of line   *)
(* 100 and the insert_one of line 101 are two round trips to the store.    *)

InFlight == Cardinality({p \in Sessions : pc[p] # "idle"})

Call(p, category_name) ==
    /\ pc[p] = "idle"
    /\ Len(categories_collection) + InFlight < MaxCategories
    /\ pc' = [pc EXCEPT ![p] = "find"]
    /\ arg' = [arg EXCEPT ![p] = category_name]
    /\ UNCHANGED <<products, categories_collection, uploaded_files, all_products,
                   invalid_files, last, found>>

\* line 100
Find(p) ==
    /\ pc[p] = "find"
    /\ found' = [found EXCEPT ![p] = find_one(categories_collection, arg[p])]
    /\ IF find_one(categories_collection, arg[p])
       THEN /\ pc' = [pc EXCEPT ![p] = "idle"]
            /\ last' = [op |-> "add_category", name |-> arg[p], found |-> TRUE]
       ELSE /\ pc' = [pc EXCEPT ![p] = "insert"]
            /\ UNCHANGED last
    /\ UNCHANGED <<products, categories_collection, uploaded_files, all_products,
                   invalid_files, arg>>

\* line 101
Insert(p) ==
    /\ pc[p] = "insert"
    /\ categories_collection' = insert_one(categories_collection, arg[p])
    /\ pc' = [pc EXCEPT ![p] = "idle"]
    /\ last' = [op |-> "add_category", name |-> arg[p], found |-> FALSE]
    /\ UNCHANGED <<products, uploaded_files, all_products, invalid_files, arg, found>>

NextRace ==
    \/ \E p \in Sessions, category_name \in NewCategories : Call(p, category_name)
    \/ \E p \in Sessions : Find(p)
    \/ \E p \in Sessions : Insert(p)

SpecRace == Init /\ [][NextRace]_vars


----------------------------------------------------------------------------
(* Properties *)

Count(coll, x) == Cardinality({i \in 1..Len(coll) : coll[i] = x})

\* C1: saveProducts is all-or-nothing: when a record of the batch violates the
\* product schema the call fails and the products collection holds exactly
\* the records it held before the call.
C1_AllOrNothing ==
    [][(last'.op = "upload" /\ last'.error) => products' = products]_vars

\* C2: in sequential use no two Category records share a name, and
\* addCategory of a name that is stored already changes nothing.
C2_UniqueNames ==
    /\ [](\A i, j \in 1..Len(categories_collection) :
              categories_collection[i] = categories_collection[j] => i = j)
    /\ [][(last'.op = "add_category" /\ last'.found)
              => categories_collection' = categories_collection]_vars

\* addCategory("a") found "a" stored, and one record is named "a"
C2_Witness ==
    /\ last.op = "add_category" /\ last.name = <<"a">> /\ last.found
    /\ Count(categories_collection, <<"a">>) = 1
    /\ Len(categories_collection) >= 2

\* C3: addCategory is not atomic: the insert of a call whose existence check
\* ran before another session stored the name adds a second record of that
\* name, and the call ends as an add of a new name does.
C3_StaleCheckInserts ==
    [][\A p \in Sessions :
          (pc[p] = "insert" /\ pc'[p] = "idle" /\ find_one(categories_collection, arg[p]))
              => /\ Count(categories_collection', arg[p])
                        = Count(categories_collection, arg[p]) + 1
                 /\ last' = [op |-> "add_category", name |-> arg[p], found |-> FALSE]]_vars

\* both calls have returned and two records are named "a"
C3_Witness ==
    /\ \A p \in Sessions : pc[p] = "idle" /\ arg[p] = <<"a">> /\ ~found[p]
    /\ categories_collection = <<<<"a">>, <<"a">>>>
    /\ last = [op |-> "add_category", name |-> <<"a">>, found |-> FALSE]

\* C10: an upload whose batch insert is rejected makes no partial commit: the
\* products collection and the categories collection are as before the upload.
C10_NoPartialCommit ==
    [][(last'.op = "upload" /\ last'.error)
          => /\ categories_collection' = categories_collection
             /\ Len(products') = Len(products)]_vars


HasRequired(file) == \A col \in required_columns : col \in file.columns

\* a row whose price or quantity is no number, or whose categories is no text
IllFormed(row) ==
    \/ row["price"].t = "str"
    \/ row["quantity"].t \in {"str", "empty"}
    \/ row["categories"].t # "str"

\* a file that has the required columns and whose rows all coerce
Coerces(file) == HasRequired(file) /\ \A i \in 1..Len(file.rows) : ~IllFormed(file.rows[i])

FailsCoercion(file) == HasRequired(file) /\ \E i \in 1..Len(file.rows) : IllFormed(file.rows[i])

\* the rows of the files that have the required columns, in upload order
RECURSIVE SourceRows(_)
SourceRows(files) ==
    IF files = <<>> THEN <<>>
    ELSE (IF HasRequired(Head(files))
          THEN [i \in 1..Len(Head(files).rows) |->
                   [row |-> Head(files).rows[i], columns |-> Head(files).columns]]
          ELSE <<>>) \o SourceRows(Tail(files))

\* the number a numeric cell stands for, in halves
Halves(cell) == IF cell.t = "intstr" THEN 2 * cell.n ELSE cell.n

\* the integer part of h halves
Truncated(h) ==
    CHOOSE q \in -20..20 : IF h >= 0 THEN 2 * q <= h /\ h < 2 * q + 2
                                      ELSE 2 * q - 2 < h /\ h <= 2 * q

RECURSIVE Join(_)
Join(pieces) ==
    IF Len(pieces) = 1 THEN pieces[1]
    ELSE pieces[1] \o <<",">> \o Join(Tail(pieces))

Spaces(n) == [i \in 1..n |-> " "]

\* t is piece without the spaces around it
IsTrimmed(t, piece) ==
    /\ t = <<>> \/ (t[1] # " " /\ t[Len(t)] # " ")
    /\ \E a, b \in 0..Len(piece) : piece = Spaces(a) \o t \o Spaces(b)

\* labels are the pieces of text between its commas, each trimmed, none dropped
IsSplitTrimmed(labels, text) ==
    \E pieces \in [1..Len(labels) -> {SubSeq(text, i, j) : i \in 1..(Len(text) + 1), j \in 0..Len(text)}] :
        /\ Join(pieces) = text
        /\ \A i \in 1..Len(pieces) :
              /\ \A k \in 1..Len(pieces[i]) : pieces[i][k] # ","
              /\ IsTrimmed(labels[i], pieces[i])

\* doc is the record of one data row
IsRecordOf(doc, src) ==
    /\ doc.product_name = read_cell(src.row["product_name"], "object")
    /\ doc.description = read_cell(src.row["description"], "object")
    /\ doc.price.t = "float" /\ doc.price.n = Halves(src.row["price"])
    /\ doc.quantity.t = "int" /\ doc.quantity.n = Truncated(Halves(src.row["quantity"]))
    /\ Len(doc.categories) >= 1
    /\ IsSplitTrimmed(doc.categories, src.row["categories"].s)
    /\ doc.category = IF "category" \in src.columns THEN <<src.row["category"].s>> ELSE <<>>

\* C4: every file of the upload that lacks a required column is recorded by
\* name as invalid, and every valid file beside it contributes all its records.
C4_LackingFileSkipped ==
    last.op = "files" =>
        \A i \in 1..Len(uploaded_files) :
            ~HasRequired(uploaded_files[i]) =>
                /\ \E k \in 1..Len(invalid_files) : invalid_files[k] = uploaded_files[i].name
                /\ \A j \in 1..Len(uploaded_files) :
                      Coerces(uploaded_files[j]) =>
                          \A r \in 1..Len(uploaded_files[j].rows) :
                              \E k \in 1..Len(all_products) :
                                  IsRecordOf(all_products[k],
                                             [row |-> uploaded_files[j].rows[r],
                                              columns |-> uploaded_files[j].columns])

\* C5: a file that fails type coercion fails alone: the other files of the
\* upload are processed and their records aggregated.
C5_CoercionFailureConfined ==
    (last.op = "files" /\ \E i \in 1..Len(uploaded_files) : FailsCoercion(uploaded_files[i]))
        => LET kept == SourceRows(SelectSeq(uploaded_files, Coerces))
           IN  /\ Len(all_products) = Len(kept)
               /\ \A k \in 1..Len(kept) : IsRecordOf(all_products[k], kept[k])

Contains(text, term) ==
    \E i \in 0..Len(text) :
        /\ i + Len(term) <= Len(text)
        /\ \A k \in 1..Len(term) : Lower(text[i + k]) = Lower(term[k])

\* the term, read as a pattern in which "." stands for any character, matches
\* a part of the text, whatever the case
PatternOccurs(text, term) ==
    \E w \in {SubSeq(text, i, j) : i \in 1..(Len(text) + 1), j \in 0..Len(text)} :
        /\ Len(w) = Len(term)
        /\ \A k \in 1..Len(term) : term[k] = "." \/ Lower(term[k]) = Lower(w[k])

C9_CategorySearchUnreachable ==
    last.op = "search" =>
        \A k \in 1..Len(last.result) :
            \/ PatternOccurs(last.result[k].product_name.s, last.term)
            \/ PatternOccurs(last.result[k].description.s, last.term)

\* C9 as amended: a product that has no category field is in a search result
\* only when the term matches its product_name or description, whatever its
\* categories are; a product that is in the result without such a match has
\* the category field, and the field is the term.
C9_CategoryFieldOnly ==
    last.op = "search" =>
        \A k \in 1..Len(last.result) :
            \/ PatternOccurs(last.result[k].product_name.s, last.term)
            \/ PatternOccurs(last.result[k].description.s, last.term)
            \/ /\ last.result[k].category = <<last.term>>
               /\ \E i \in 1..Len(products) : products[i] = last.result[k]

\* of two uploads of the Widget row, whose categories hold "a", the term "a"
\* finds the one that was recategorized to "a" and not the other
C9_Witness ==
    /\ last.op = "search" /\ last.term = <<"a">>
    /\ Len(products) = 2 /\ last.result = <<products[1]>>
    /\ products[1].category = <<<<"a">>>>
    /\ products[2].category = <<>>
    /\ \E i \in 1..Len(products[2].categories) : products[2].categories[i] = <<"a">>
    /\ ~PatternOccurs(products[1].product_name.s, <<"a">>)
    /\ ~PatternOccurs(products[1].description.s, <<"a">>)

====
